---- MODULE Spec2Model ----
(***************************************************************************)
(* Text-to-SQL pipeline of the HR chatbot: src/src/chat_engine.py          *)
(* (sanitizer, template matcher, generate_sql, repair_sql, ask_hr_bot)     *)
(* and src/src/rag_sql.py (is_safe_sql, run_sql).                          *)
(*                                                                         *)
(* Text is a sequence of lexemes.  A lexeme is either a run of word        *)
(* characters (letters, digits, underscore) or one non-word character      *)
(* (the code fence, three backquotes, is one lexeme, written "~~~" since a *)
(* TLA+ string cannot hold a backquote).  Adjacent                         *)
(* lexemes touch: <<"employees", "_backup">> is the text employees_backup, *)
(* <<"1", "0">> is the text 10.  Every keyword the code searches for is a  *)
(* lexeme of its own, so a substring search of the code is a search for a  *)
(* run of lexemes here, and \b of a regular expression is a change of      *)
(* word-ness between neighbours.                                           *)
(***************************************************************************)
EXTENDS Integers, Sequences, FiniteSets, TLC

(***************************************************************************)
(* Characters and strings                                                  *)
(***************************************************************************)

\* Python str.strip() and the regex class \s
Whitespace == {" ", "\n", "\t"}

\* the lexemes that are a non-word character (regex \W)
NonWord ==
    Whitespace \cup {";", "=", "*", "(", ")", ",", ".", "'", "~~~", ">", "<",
                     "?", ":", "/", "!"}

IsWord(t) == t \notin NonWord

\* the element of a set of one element; The({e : x \in {v}}) is e with v
\* computed once for x: an assignment `x = v` followed by uses of x
The(S) == CHOOSE x \in S : TRUE

\* str.lower() on one lexeme
LowerTok(t) ==
    CASE t = "SELECT" -> "select"
      [] t = "Select" -> "select"
      [] t = "FROM" -> "from"
      [] t = "From" -> "from"
      [] t = "Attrition" -> "attrition"
      [] t = "ATTRITION" -> "attrition"
      [] t = "LIMIT" -> "limit"
      [] t = "Limit" -> "limit"
      [] t = "Only" -> "only"
      [] t = "ONLY" -> "only"
      [] t = "COUNT" -> "count"
      [] t = "Count" -> "count"
      [] t = "SQL" -> "sql"
      [] t = "WHERE" -> "where"
      [] t = "Where" -> "where"
      [] t = "TABLE" -> "table"
      [] t = "DROP" -> "drop"
      [] t = "Drop" -> "drop"
      [] t = "DELETE" -> "delete"
      [] t = "UPDATE" -> "update"
      [] t = "Update" -> "update"
      [] t = "INSERT" -> "insert"
      [] t = "ALTER" -> "alter"
      [] t = "PRAGMA" -> "pragma"
      [] t = "ATTACH" -> "attach"
      [] t = "DETACH" -> "detach"
      [] t = "CREATE" -> "create"
      [] t = "Department" -> "department"
      [] t = "DEPARTMENT" -> "department"
      [] t = "MonthlyIncome" -> "monthlyincome"
      [] t = "Avg" -> "avg"
      [] t = "AVG" -> "avg"
      [] t = "Average" -> "average"
      [] t = "ROUND" -> "round"
      [] t = "SUM" -> "sum"
      [] t = "CASE" -> "case"
      [] t = "WHEN" -> "when"
      [] t = "THEN" -> "then"
      [] t = "ELSE" -> "else"
      [] t = "END" -> "end"
      [] t = "AS" -> "as"
      [] t = "GROUP" -> "group"
      [] t = "BY" -> "by"
      [] t = "ORDER" -> "order"
      [] t = "DESC" -> "desc"
      [] t = "Yes" -> "yes"
      [] t = "No" -> "no"
      [] t = "Age" -> "age"
      [] t = "JobRole" -> "jobrole"
      [] t = "Sure" -> "sure"
      [] t = "Here" -> "here"
      [] t = "How" -> "how"
      [] t = "What" -> "what"
      [] t = "Which" -> "which"
      [] t = "List" -> "list"
      [] t = "Total" -> "total"
      [] t = "Number" -> "number"
      [] t = "Rate" -> "rate"
      [] t = "Sales" -> "sales"
      [] t = "Percent" -> "percent"
      [] t = "RATE" -> "rate"
      [] t = "WHAT" -> "what"
      [] t = "IS" -> "is"
      [] t = "THE" -> "the"
      [] t = "OR" -> "or"
      [] t = "ED" -> "ed"
      [] t = "I" -> "i"
      [] OTHER -> t

\* str.lower(): a new text, lexeme by lexeme
Lower(s) ==
    The({[i \in 1..Len(t) |-> LowerTok(t[i])] \o <<>> : t \in {s}})

\* s[i:] of Python, i counted from 1 here
From(s, i) == SubSeq(s, i, Len(s))

\* s.startswith(p)
StartsWith(s, p) == Len(p) <= Len(s) /\ SubSeq(s, 1, Len(p)) = p

\* the places where p occurs in s
Occurrences(s, p) ==
    {i \in 1..(Len(s) - Len(p) + 1) : SubSeq(s, i, i + Len(p) - 1) = p}

\* p in s
Contains(s, p) == Occurrences(s, p) # {}

Min(S) == CHOOSE m \in S : \A n \in S : m <= n

\* s.find(p), counted from 1; 0 when p does not occur
Find(s, p) == IF Contains(s, p) THEN Min(Occurrences(s, p)) ELSE 0

\* s.replace(p, r): leftmost occurrences, not overlapping, one pass
RECURSIVE Replace(_, _, _)
Replace(s, p, r) ==
    IF ~Contains(s, p) THEN s
    ELSE LET i == Find(s, p)
         IN  SubSeq(s, 1, i - 1) \o r \o Replace(From(s, i + Len(p)), p, r)

\* s.lstrip() / s.rstrip() / s.strip()
RECURSIVE LStrip(_)
LStrip(s) ==
    IF s # <<>> /\ Head(s) \in Whitespace THEN LStrip(Tail(s)) ELSE s

RECURSIVE RStrip(_)
RStrip(s) ==
    IF s # <<>> /\ s[Len(s)] \in Whitespace
        THEN RStrip(SubSeq(s, 1, Len(s) - 1))
        ELSE s

Strip(s) == LStrip(RStrip(s))

\* s.rstrip(";") / s.strip(";")
RECURSIVE RStripSemi(_)
RStripSemi(s) ==
    IF s # <<>> /\ s[Len(s)] = ";"
        THEN RStripSemi(SubSeq(s, 1, Len(s) - 1))
        ELSE s

RECURSIVE LStripSemi(_)
LStripSemi(s) ==
    IF s # <<>> /\ Head(s) = ";" THEN LStripSemi(Tail(s)) ELSE s

StripSemi(s) == LStripSemi(RStripSemi(s))

\* the places 1..Len(s), in order
Places(s) == [i \in 1..Len(s) |-> i]

\* re.sub(r"\s+", " ", s): a space for the first character of each
\* white-space run, nothing for the others
CollapseWs(s) ==
    LET First(i) == s[i] \notin Whitespace \/ i = 1 \/ s[i - 1] \notin Whitespace
    IN  The({[k \in 1..Len(kept) |->
                IF s[kept[k]] \in Whitespace THEN " " ELSE s[kept[k]]]
             \o <<>> : kept \in {SelectSeq(Places(s), First)}})

\* regex \b between s[i-1] and s[i] (i = 1 and i = Len(s)+1 are the ends)
Boundary(s, i) ==
    LET before == i > 1 /\ IsWord(s[i - 1])
        after  == i <= Len(s) /\ IsWord(s[i])
    IN  before # after

\* the word w (lower case) stands at place i as a whole word, any letter case
WholeWordAt(s, i, w) ==
    /\ LowerTok(s[i]) = w
    /\ Boundary(s, i)
    /\ Boundary(s, i + 1)

\* re.sub(r"\bOnly\b", "", s, flags=re.IGNORECASE)
RemoveOnly(s) ==
    LET Keep(i) == ~WholeWordAt(s, i, "only")
    IN  The({[k \in 1..Len(kept) |-> s[kept[k]]] \o <<>> :
             kept \in {SelectSeq(Places(s), Keep)}})

\* the length of the whitespace run of s that starts at place i
RECURSIVE WsRun(_, _)
WsRun(s, i) ==
    IF i <= Len(s) /\ s[i] \in Whitespace THEN 1 + WsRun(s, i + 1) ELSE 0

(***************************************************************************)
(* Query sanitizer: chat_engine.py                                         *)
(***************************************************************************)

Fence == <<"~~~">>
FenceSql == <<"~~~", "sql">>

\* sql.replace("~~~sql", "").replace("~~~", "").strip()
Unfenced(sql) ==
    The({Strip(Replace(s, Fence, <<>>)) :
         s \in {Replace(sql, FenceSql, <<>>)}})

_normalize_sql(sql) ==
    The({Strip(CollapseWs(s)) : s \in {Unfenced(sql)}})

\* every statement of the text kept
FirstStatementKeepAll(s) == s

\* if ";" in s: s = s.split(";")[0].strip() + ";"
FirstStatement(s) ==
    IF Contains(s, <<";">>)
        THEN Strip(SubSeq(s, 1, Find(s, <<";">>) - 1)) \o <<";">>
        ELSE s

\* idx = s.lower().find("select"); if idx > 0: s = s[idx:]; return s.strip()
FromSelect(s) ==
    The({Strip(IF idx > 1 THEN From(s, idx) ELSE s) :
         idx \in {Find(Lower(s), <<"select">>)}})

_extract_first_select(sql) ==
    The({FromSelect(s3) :
         s3 \in {FirstStatement(s2) :
                 s2 \in {Strip(RemoveOnly(s1)) :
                         s1 \in {_normalize_sql(sql)}}}})

_contains_bad_attrition(sql) ==
    \E s \in {Lower(_extract_first_select(sql))} :
        \/ Contains(s, <<"attrition", " ", "=", " ", "1">>)
        \/ Contains(s, <<"attrition", "=", "1">>)
        \/ Contains(s, <<"attrition", " ", "=", " ", "0">>)
        \/ Contains(s, <<"attrition", "=", "0">>)

\* re.match(r"select\s+<w>", s[i:]): the place after the match, 0 when the
\* pattern does not match at place i
SelectThenAt(s, i, w) ==
    LET n == WsRun(s, i + 1)
        j == i + 1 + n
    IN  IF /\ s[i] = "select"
           /\ n >= 1
           /\ j <= Len(s)
           /\ s[j] = w
        THEN j + 1
        ELSE 0

\* re.search(r"select\s+<w>\b", s) on lower-case s
SelectWord(s, w) ==
    \E i \in 1..Len(s) :
        LET k == SelectThenAt(s, i, w) IN k > 0 /\ Boundary(s, k)

\* re.search(r"select\s+\*\s*limit\b", s) on lower-case s
SelectStarLimit(s) ==
    \E i \in 1..Len(s) :
        LET k == SelectThenAt(s, i, "*")
            m == k + WsRun(s, k)
        IN  /\ k > 0
            /\ m <= Len(s)
            /\ s[m] = "limit"
            /\ Boundary(s, m + 1)

\* re.search(r"select\s+count\s*\(", s, flags=re.IGNORECASE)
SelectCount(s) ==
    \E l \in {Lower(s)} :
        \E i \in 1..Len(l) :
            LET k == SelectThenAt(l, i, "count")
                m == k + WsRun(l, k)
            IN  k > 0 /\ m <= Len(l) /\ l[m] = "("

\* the validity checks on the text as written, not lower-cased
is_valid_sql_for_hr_NoLower(sql) ==
    \E s \in {_extract_first_select(sql)} :
        /\ StartsWith(s, <<"select">>)
        /\ Contains(s, <<" ", "from", " ", "employees">>)
        /\ ~_contains_bad_attrition(s)
        /\ ~SelectWord(s, "query")
        /\ ~SelectWord(s, "sql")
        /\ ~SelectWord(s, "data")
        /\ ~SelectStarLimit(s)

is_valid_sql_for_hr(sql) ==
    \E s \in {Lower(_extract_first_select(sql))} :
        /\ StartsWith(s, <<"select">>)
        /\ Contains(s, <<" ", "from", " ", "employees">>)
        /\ ~_contains_bad_attrition(s)
        /\ ~SelectWord(s, "query")
        /\ ~SelectWord(s, "sql")
        /\ ~SelectWord(s, "data")
        /\ ~SelectStarLimit(s)

default_limit == 50

\* str() of a digit
Digit(d) ==
    CASE d = 0 -> "0" [] d = 1 -> "1" [] d = 2 -> "2" [] d = 3 -> "3"
      [] d = 4 -> "4" [] d = 5 -> "5" [] d = 6 -> "6" [] d = 7 -> "7"
      [] d = 8 -> "8" [] d = 9 -> "9"

\* str() of a natural number
RECURSIVE Decimal(_)
Decimal(n) ==
    IF n < 10 THEN <<Digit(n)>> ELSE Decimal(n \div 10) \o <<Digit(n % 10)>>

\* f" LIMIT {default_limit};"
LimitClause == <<" ", "LIMIT", " ">> \o Decimal(default_limit) \o <<";">>

\* ensure_limit after its first line, s = _extract_first_select(sql)
Limited(s) ==
    IF SelectCount(s) THEN RStripSemi(s) \o <<";">>
    ELSE IF ~Contains(Lower(s), <<"limit">>)
        THEN RStripSemi(s) \o LimitClause
        ELSE s

ensure_limit(sql) == The({Limited(s) : s \in {_extract_first_select(sql)}})

(***************************************************************************)
(* Deterministic templates and the count intent: chat_engine.py            *)
(***************************************************************************)

\* n spaces of indentation
Sp(n) == [i \in 1..n |-> " "]

\* a line break followed by n spaces
Nl(n) == <<"\n">> \o Sp(n)

\* no statement: Python's None (`if known:` treats None and "" alike)
None == <<>>

\* the attrition-rate-by-department statement, as written in the source and
\* stripped: line breaks and indentation included
RATE_SQL ==
    <<"SELECT">> \o Nl(10)
    \o <<"Department", ",">> \o Nl(10)
    \o <<"ROUND", "(", "1", "0", "0", ".", "0", " ", "*", " ", "SUM", "(",
         "CASE", " ", "WHEN", " ", "Attrition", " ", "=", " ", "'", "Yes",
         "'", " ", "THEN", " ", "1", " ", "ELSE", " ", "0", " ", "END", ")",
         " ", "/", " ", "COUNT", "(", "*", ")", ",", " ", "2", ")">> \o Nl(12)
    \o <<"AS", " ", "Attrition", "Rate", "Percent">> \o Nl(8)
    \o <<"FROM", " ", "employees">> \o Nl(8)
    \o <<"GROUP", " ", "BY", " ", "Department">> \o Nl(8)
    \o <<"ORDER", " ", "BY", " ", "Attrition", "Rate", "Percent", " ", "DESC",
         ";">>

\* the average-MonthlyIncome-by-department statement
AVG_SQL ==
    <<"SELECT">> \o Nl(10)
    \o <<"Department", ",">> \o Nl(10)
    \o <<"ROUND", "(", "AVG", "(", "MonthlyIncome", ")", ",", " ", "2", ")",
         " ", "AS", " ", "Avg", "MonthlyIncome">> \o Nl(8)
    \o <<"FROM", " ", "employees">> \o Nl(8)
    \o <<"GROUP", " ", "BY", " ", "Department">> \o Nl(8)
    \o <<"ORDER", " ", "BY", " ", "Avg", "MonthlyIncome", " ", "DESC", ";">>

\* the row-count statement
COUNT_SQL ==
    <<"SELECT", " ", "COUNT", "(", "*", ")", " ", "AS", " ", "employee_",
      "count", " ", "FROM", " ", "employees", ";">>

MatchesRate(q) ==
    Contains(q, <<"attrition", " ", "rate">>) /\ Contains(q, <<"department">>)

MatchesAvg(q) ==
    /\ Contains(q, <<"average">>) \/ Contains(q, <<"avg">>)
    /\ Contains(q, <<"monthlyincome">>)
    /\ Contains(q, <<"department">>)

\* _match_known_sql after its first line, q = user_question.strip().lower()
KnownSql(q) ==
    IF MatchesRate(q) THEN RATE_SQL
    ELSE IF MatchesAvg(q) THEN AVG_SQL
    ELSE None

\* the template tests on the question as written, not lower-cased
_match_known_sql_CaseSensitive(user_question) ==
    The({KnownSql(q) : q \in {Strip(user_question)}})

_match_known_sql(user_question) ==
    The({KnownSql(q) : q \in {Lower(Strip(user_question))}})

CountKeywords ==
    {<<"how", " ", "many">>, <<"count">>, <<"number", " ", "of">>, <<"total">>}

\* the keyword test on the question as written, not lower-cased
is_count_question_CaseSensitive(q) ==
    \E k \in CountKeywords : Contains(q, k)

is_count_question(q) ==
    \E l \in {Lower(q)} : \E k \in CountKeywords : Contains(l, k)

Qualifiers ==
    {"where", "above", "below", "greater", "less", "older", "younger", ">",
     "<", "="}

HasQualifier(user_question) ==
    \E l \in {Lower(user_question)} : \E w \in Qualifiers : Contains(l, <<w>>)

\* generate_sql up to its first generator call: the statement returned
\* without the generator, None when the generator is needed
Shortcut(user_question) ==
    LET known == _match_known_sql(user_question)
    IN  IF known # None THEN known
        ELSE IF is_count_question(user_question) /\ ~HasQualifier(user_question)
            THEN COUNT_SQL
            ELSE None

(***************************************************************************)
(* Repair: the substitution guard of repair_sql                            *)
(***************************************************************************)

Yes == <<"'", "Yes", "'">>
No == <<"'", "No", "'">>

\* fixed is the corrected statement after ensure_limit
SubstituteYes(fixed) ==
    The({Replace(f, <<"Attrition", "=", "1">>, <<"Attrition", "=">> \o Yes) :
         f \in {Replace(fixed, <<"Attrition", " ", "=", " ", "1">>,
                        <<"Attrition", " ", "=", " ">> \o Yes)}})

SubstituteNo(fixed) ==
    The({Replace(f, <<"Attrition", "=", "0">>, <<"Attrition", "=">> \o No) :
         f \in {Replace(fixed, <<"Attrition", " ", "=", " ", "0">>,
                        <<"Attrition", " ", "=", " ">> \o No)}})

RepairGuard(fixed) ==
    IF _contains_bad_attrition(fixed)
        THEN The({SubstituteNo(f) : f \in {SubstituteYes(fixed)}})
        ELSE fixed

(***************************************************************************)
(* Execution boundary: rag_sql.py                                          *)
(***************************************************************************)

FORBIDDEN_SQL ==
    {"insert", "update", "delete", "drop", "alter", "pragma", "attach",
     "detach", "create"}

\* the SELECT prefix test alone, no forbidden-word search
is_safe_sql_PrefixOnly(query) ==
    \E q \in {StripSemi(Strip(query))} : StartsWith(Lower(q), <<"select">>)

is_safe_sql(query) ==
    \E q \in {StripSemi(Strip(query))} :
        /\ StartsWith(Lower(q), <<"select">>)
        /\ ~\E i \in 1..Len(q) :
                \E w \in FORBIDDEN_SQL : WholeWordAt(q, i, w)

(***************************************************************************)
(* Inputs: questions, conversation memories, generator replies             *)
(***************************************************************************)

\* 'How many employees are there?'
QHowMany ==
    <<"How", " ", "many", " ", "employees", " ", "are", " ", "there", "?">>

\* 'What is the attrition rate by department?'
QRate ==
    <<"What", " ", "is", " ", "the", " ", "attrition", " ", "rate", " ",
      "by", " ", "department", "?">>

\* 'Average MonthlyIncome by Department'
QAvg ==
    <<"Average", " ", "MonthlyIncome", " ", "by", " ", "Department">>

\* 'avg monthlyincome and attrition rate by department'
QBoth ==
    <<"avg", " ", "monthlyincome", " ", "and", " ", "attrition", " ",
      "rate", " ", "by", " ", "department">>

\* 'Total attrition rate by department'
QTotalRate ==
    <<"Total", " ", "attrition", " ", "rate", " ", "by", " ", "department">>

\* '  WHAT IS THE ATTRITION RATE BY DEPARTMENT  '
QRateUpper ==
    <<" ", " ", "WHAT", " ", "IS", " ", "THE", " ", "ATTRITION", " ",
      "RATE", " ", "BY", " ", "DEPARTMENT", " ", " ">>

\* 'Which country has most employees'
QCountry ==
    <<"Which", " ", "count", "ry", " ", "has", " ", "most", " ", "employees">>

\* 'total employees'
QTotal ==
    <<"total", " ", "employees">>

\* 'How many employees are older than 40?'
QOlder ==
    <<"How", " ", "many", " ", "employees", " ", "are", " ", "older", " ",
      "than", " ", "4", "0", "?">>

\* 'Number of employees unless retired'
QUnless ==
    <<"Number", " ", "of", " ", "employees", " ", "un", "less", " ",
      "retired">>

\* 'List employees in Sales'
QList ==
    <<"List", " ", "employees", " ", "in", " ", "Sales">>

Questions ==
    {QHowMany, QRate, QAvg, QBoth, QTotalRate, QRateUpper, QCountry,
     QTotal, QOlder, QUnless, QList}

\* the longest conversation memory tried
MaxMem == 7

\* the i-th turn of a conversation; its content is the text of its number
Turn(i) ==
    [role |-> IF i % 2 = 1 THEN "user" ELSE "assistant",
     content |-> ToString(i)]

Memories == {[i \in 1..n |-> Turn(i)] : n \in {0, MaxMem}}

Modes == {"groq", "local"}

\* summarize_memory's default for max_turns
max_turns == 6

\* str.upper() on a role
UpperTok(t) ==
    CASE t = "user" -> "USER"
      [] t = "assistant" -> "ASSISTANT"
      [] t = "system" -> "SYSTEM"
      [] OTHER -> t

\* memory[-max_turns:]
LastTurns(mem, n) ==
    IF Len(mem) <= n THEN mem ELSE SubSeq(mem, Len(mem) - n + 1, Len(mem))

\* f"{role}: {m['content']}" with the role upper-cased
MemoryLine(m) == <<UpperTok(m.role), ":", " ", m.content>>

\* "\n".join(lines)
RECURSIVE JoinLines(_)
JoinLines(lines) ==
    IF lines = <<>> THEN <<>>
    ELSE IF Len(lines) = 1 THEN lines[1]
    ELSE lines[1] \o <<"\n">> \o JoinLines(Tail(lines))

\* every turn kept, however long the memory
summarize_memory_Untruncated(mem) ==
    JoinLines([i \in 1..Len(mem) |-> MemoryLine(mem[i])])

summarize_memory(mem) ==
    The({JoinLines([i \in 1..Len(recent) |-> MemoryLine(recent[i])]) :
         recent \in {LastTurns(mem, max_turns)}})

\* the conversation-context message of a request built with `if memory:`
\* (_llm_sql and answer_with_data), None when the memory is empty
ContextOfMemory(mem) == IF mem # <<>> THEN summarize_memory(mem) ELSE None

\* the conversation-context message of each kind of generator request: the
\* request of ask_hr_bot and that of repair_sql carry none
ContextOf(kind, mem) ==
    IF kind \in {"first", "guard", "strict", "answer"}
    THEN ContextOfMemory(mem)
    ELSE None

\* 'SELECT * FROM employees'
RPlain ==
    <<"SELECT", " ", "*", " ", "FROM", " ", "employees">>

\* 'SELECT * FROM employees WHERE Attrition = 1'
RBadSpaced ==
    <<"SELECT", " ", "*", " ", "FROM", " ", "employees", " ", "WHERE", " ",
      "Attrition", " ", "=", " ", "1">>

\* 'SELECT * FROM employees WHERE Attrition=0'
RBadTight ==
    <<"SELECT", " ", "*", " ", "FROM", " ", "employees", " ", "WHERE", " ",
      "Attrition", "=", "0">>

\* 'select * from employees where attrition = 1'
RBadLower ==
    <<"select", " ", "*", " ", "from", " ", "employees", " ", "where", " ",
      "attrition", " ", "=", " ", "1">>

\* 'SELECT * FROM employees WHERE ATTRITION = 0;'
RBadUpper ==
    <<"SELECT", " ", "*", " ", "FROM", " ", "employees", " ", "WHERE", " ",
      "ATTRITION", " ", "=", " ", "0", ";">>

\* 'SELECT * FROM employees WHERE Attrition =1'
RBadLeft ==
    <<"SELECT", " ", "*", " ", "FROM", " ", "employees", " ", "WHERE", " ",
      "Attrition", " ", "=", "1">>

\* 'SELECT * FROM employees WHERE Attrition= 0'
RBadRight ==
    <<"SELECT", " ", "*", " ", "FROM", " ", "employees", " ", "WHERE", " ",
      "Attrition", "=", " ", "0">>

\* 'SELECT * FROM employees WHERE Attrition = 10'
RBadTen ==
    <<"SELECT", " ", "*", " ", "FROM", " ", "employees", " ", "WHERE", " ",
      "Attrition", " ", "=", " ", "1", "0">>

\* 'SELECT Age FROM employees WHERE Attrition = 1 OR attrition=0'
RBadMixed ==
    <<"SELECT", " ", "Age", " ", "FROM", " ", "employees", " ", "WHERE",
      " ", "Attrition", " ", "=", " ", "1", " ", "OR", " ", "attrition",
      "=", "0">>

\* "SELECT * FROM employees WHERE Attrition = 'Yes'"
RGood ==
    <<"SELECT", " ", "*", " ", "FROM", " ", "employees", " ", "WHERE", " ",
      "Attrition", " ", "=", " ", "'", "Yes", "'">>

\* 'SELECT 1'
RNoTable ==
    <<"SELECT", " ", "1">>

\* 'DROP TABLE employees'
RDrop ==
    <<"DROP", " ", "TABLE", " ", "employees">>

\* 'SELECT * FROM employees; DROP TABLE employees;'
RTwo ==
    <<"SELECT", " ", "*", " ", "FROM", " ", "employees", ";", " ", "DROP",
      " ", "TABLE", " ", "employees", ";">>

\* 'Here is the query: SELECT Age FROM employees'
RPreamble ==
    <<"Here", " ", "is", " ", "the", " ", "query", ":", " ", "SELECT", " ",
      "Age", " ", "FROM", " ", "employees">>

\* 'Sure; SELECT Age FROM employees'
RPreambleSemi ==
    <<"Sure", ";", " ", "SELECT", " ", "Age", " ", "FROM", " ", "employees">>

\* '~~~sql\nSELECT Age FROM employees\n~~~'
RFenced ==
    <<"~~~", "sql", "\n", "SELECT", " ", "Age", " ", "FROM", " ",
      "employees", "\n", "~~~">>

\* 'Only SELECT Age FROM employees'
ROnly ==
    <<"Only", " ", "SELECT", " ", "Age", " ", "FROM", " ", "employees">>

\* 'SELECT only Age FROM employees LIMIT 5'
ROnlyInside ==
    <<"SELECT", " ", "only", " ", "Age", " ", "FROM", " ", "employees",
      " ", "LIMIT", " ", "5">>

\* 'SELECT COUNT(*) FROM employees;'
RCount ==
    <<"SELECT", " ", "COUNT", "(", "*", ")", " ", "FROM", " ", "employees",
      ";">>

\* 'SELECT count (*) FROM employees WHERE Attrition = 1'
RCountBad ==
    <<"SELECT", " ", "count", " ", "(", "*", ")", " ", "FROM", " ",
      "employees", " ", "WHERE", " ", "Attrition", " ", "=", " ", "1">>

\* 'SELECT Age FROM employees LIMIT 10;'
RLimit ==
    <<"SELECT", " ", "Age", " ", "FROM", " ", "employees", " ", "LIMIT",
      " ", "1", "0", ";">>

\* 'SELECT * FROM employees_backup'
RBackup ==
    <<"SELECT", " ", "*", " ", "FROM", " ", "employees", "_backup">>

\* 'SELECT query'
RQuery ==
    <<"SELECT", " ", "query">>

\* 'select data from employees'
RData ==
    <<"select", " ", "data", " ", "from", " ", "employees">>

\* 'SELECT * LIMIT 5 FROM employees'
RStarLimit ==
    <<"SELECT", " ", "*", " ", "LIMIT", " ", "5", " ", "FROM", " ",
      "employees">>

\* ''
REmpty ==
    <<>>

\* 'I cannot answer that.'
RProse ==
    <<"I", " ", "cannot", " ", "answer", " ", "that", ".">>

\* "SELECT Age FROM employees WHERE JobRole = 'update'"
RUpdateWord ==
    <<"SELECT", " ", "Age", " ", "FROM", " ", "employees", " ", "WHERE",
      " ", "JobRole", " ", "=", " ", "'", "update", "'">>

\* 'SELECT last_update FROM employees'
RUpdated ==
    <<"SELECT", " ", "last_", "update", " ", "FROM", " ", "employees">>

\* 'SELECT Age FROM employees;;'
RSemis ==
    <<"SELECT", " ", "Age", " ", "FROM", " ", "employees", ";", ";">>

\* the longest run of spaces tried inside a generator reply
MaxWs == 2

\* SELECT * FROM employees WHERE Attrition = 1 with n spaces on each side
\* of the operator
SpacedBad(n) ==
    <<"SELECT", " ", "*", " ", "FROM", " ", "employees", " ", "WHERE", " ",
      "Attrition">> \o Sp(n) \o <<"=">> \o Sp(n) \o <<"1">>

\* SELECT Age FROM employees with n white-space characters between words
SpacedPlain(n) ==
    Sp(n) \o <<"SELECT">> \o Sp(n) \o <<"Age">> \o Nl(n)
    \o <<"FROM">> \o Sp(n) \o <<"employees">> \o Nl(n)

\* what the generator may return for a statement request
GenTexts ==
    {RPlain, RBadSpaced, RBadTight, RBadLower, RBadUpper, RBadLeft,
     RBadRight, RBadTen, RBadMixed, RGood, RNoTable, RDrop, RTwo,
     RPreamble, RPreambleSemi, RFenced, ROnly, ROnlyInside, RCount,
     RCountBad, RLimit, RBackup, RQuery, RData, RStarLimit, REmpty, RProse,
     RUpdateWord, RUpdated, RSemis}
    \cup {
     \* "SELECT Age FROM employees WHERE JobRole = 'Limited'"
     <<"SELECT", " ", "Age", " ", "FROM", " ", "employees", " ", "WHERE",
      " ", "JobRole", " ", "=", " ", "'", "Limit", "ed", "'">>
    }
    \cup {SpacedBad(n) : n \in 0..MaxWs}
    \cup {SpacedPlain(n) : n \in 1..MaxWs}

\* what the generator may return for an answer request
AnswerTexts ==
    {<<" ", "Sales", " ", "has", " ", "4", "0", " ", "employees", ".", "\n">>,
     <<"No", " ", "matching", " ", "records", ".">>}

(***************************************************************************)
(* One invocation of ask_hr_bot.  pc is the collaborator call the          *)
(* invocation is about to make; the checks between two calls belong to the *)
(* step that precedes them.                                                *)
(***************************************************************************)

VARIABLES
    user_question,  \* argument of ask_hr_bot
    memory,         \* argument of ask_hr_bot: the caller's conversation turns
    mode,           \* argument of ask_hr_bot
    pc,             \* position in ask_hr_bot / generate_sql
    sql,            \* the local sql of ask_hr_bot (of generate_sql before)
    calls,          \* history: the kinds of the generator calls made, in order
    strict_ok,      \* history: the verdict of is_valid_sql_for_hr on what the
                    \* strict retry returned, "none" before
    execs,          \* history: the run_sql calls in order, each with its
                    \* outcome and the number of generator calls before it
    df,             \* the result table: "none", "rows" or "empty"
    answer,         \* the answer text, None before
    err,            \* the error raised to the caller, "none" when none
    context,        \* the conversation-context message of the latest
                    \* generator request, None when it carried none
    ret,            \* what a helper called on its own returned, None before
    pad_token_id,   \* process-wide: the pad token of the cached tokenizer,
                    \* None until a local causal generation sets it
    other,          \* the position of a second ask_hr_bot invocation in
                    \* the same process, "none" when there is none
    conns           \* history: the connections the run_sql calls of the
                    \* invocation opened, each with its mode and whether
                    \* run_sql closed it

vars ==
    <<user_question, memory, mode, pc, sql, calls, strict_ok, execs, df,
      answer, err, context, ret, pad_token_id, other, conns>>

\* chat(...) raised: groq_chat without credentials, or the backend failed
GenerationUnavailable == "RuntimeError"

\* run_sql refused the statement before opening the store
Unsafe == "ValueError"

\* the engine (pd.read_sql) raised
EngineError == "DatabaseError"

\* the text answer_with_data returns without a generator call
NoRecordsMessage ==
    <<"No", " ", "matching", " ", "records", " ", "were", " ", "found", ".",
      " ", "Try", " ", "refining", " ", "the", " ", "question", " ", "(",
      "e", ".", "g", ".", ",", " ", "specify", " ", "a", " ", "department",
      ",", " ", "a", " ", "range", ",", " ", "or", " ", "a", " ", "specific",
      " ", "attribute", ")", ".">>

Init ==
    /\ user_question \in Questions
    /\ memory \in Memories
    /\ mode \in Modes
    /\ pc = "start"
    /\ sql = None
    /\ calls = <<>>
    /\ strict_ok = "none"
    /\ execs = <<>>
    /\ df = "none"
    /\ answer = None
    /\ err = "none"
    /\ context = None
    /\ ret = None
    /\ pad_token_id = "None"
    /\ other = "none"
    /\ conns = <<>>

\* local_chat on a causal model (the default LOCAL_MODEL_ID) sets the pad
\* token of the tokenizer that _cached_local_model shares with every
\* invocation of the process; groq_chat keeps nothing
PadAfterChat(m, pad) == IF m = "local" THEN "eos_token_id" ELSE pad

\* generate_sql after the first attempt: guard, then validation
AfterFirst(s) ==
    IF _contains_bad_attrition(s) THEN "guard"
    ELSE IF is_valid_sql_for_hr(s) THEN "exec"
    ELSE "strict"

\* the guard as a loop: regenerate as long as the pattern is found
AfterGuardLoop(s) ==
    IF _contains_bad_attrition(s) THEN "guard"
    ELSE IF is_valid_sql_for_hr(s) THEN "exec"
    ELSE "strict"

\* the regenerated statement returned without validation
AfterGuardUnvalidated(s) == "exec"

\* generate_sql after the guard regeneration: validation
AfterGuard(s) == IF is_valid_sql_for_hr(s) THEN "exec" ELSE "strict"

\* no validity re-check in ask_hr_bot
AfterGenerateUngated(s) == "exec"

\* ask_hr_bot after generate_sql returned s: the validity re-check
AfterGenerate(s) == IF is_valid_sql_for_hr(s) THEN "exec" ELSE "fallback"

\* a validity gate after the request of ask_hr_bot too
AfterFallbackGated(s) == IF is_valid_sql_for_hr(s) THEN "exec" ELSE "fallback"

\* ask_hr_bot after its own request: straight to execution
AfterFallback(s) == "exec"

\* generate_sql returns a template or the count statement; ask_hr_bot
\* re-checks it
TemplateOrCount ==
    /\ pc = "start"
    /\ \E known \in {Shortcut(user_question)} :
        /\ known # None
        /\ sql' = known
        /\ pc' = AfterGenerate(known)
    /\ UNCHANGED <<user_question, memory, mode, calls, strict_ok, execs, df,
                   answer, err, context, ret, pad_token_id, other, conns>>

\* _llm_sql(): one generator call, its text through ensure_limit
FirstAttempt ==
    /\ pc = "start"
    /\ Shortcut(user_question) = None
    /\ \E reply \in GenTexts :
        \E res \in {ensure_limit(reply)} :
            /\ sql' = res
            /\ pc' = AfterFirst(res)
    /\ calls' = Append(calls, "first")
    /\ context' = ContextOf("first", memory)
    /\ pad_token_id' = PadAfterChat(mode, pad_token_id)
    /\ UNCHANGED <<user_question, memory, mode, strict_ok, execs, df, answer,
                   err, ret, other, conns>>

\* _llm_sql("Reminder: Attrition is TEXT ...")
GuardRegenerate ==
    /\ pc = "guard"
    /\ \E reply \in GenTexts :
        \E res \in {ensure_limit(reply)} :
            /\ sql' = res
            /\ pc' = AfterGuard(res)
    /\ calls' = Append(calls, "guard")
    /\ context' = ContextOf("guard", memory)
    /\ pad_token_id' = PadAfterChat(mode, pad_token_id)
    /\ UNCHANGED <<user_question, memory, mode, strict_ok, execs, df, answer,
                   err, ret, other, conns>>

\* _llm_sql("Your previous SQL was invalid ..."); generate_sql returns it
StrictRetry ==
    /\ pc = "strict"
    /\ \E reply \in GenTexts :
        \E res \in {ensure_limit(reply)} :
            /\ sql' = res
            /\ strict_ok' =
                IF is_valid_sql_for_hr(res) THEN "valid" ELSE "invalid"
            /\ pc' = AfterGenerate(res)
    /\ calls' = Append(calls, "strict")
    /\ context' = ContextOf("strict", memory)
    /\ pad_token_id' = PadAfterChat(mode, pad_token_id)
    /\ UNCHANGED <<user_question, memory, mode, execs, df, answer, err, ret,
                   other, conns>>

\* the request of ask_hr_bot when generate_sql returned an invalid statement
Fallback ==
    /\ pc = "fallback"
    /\ \E reply \in GenTexts :
        \E res \in {ensure_limit(reply)} :
            /\ sql' = res
            /\ pc' = AfterFallback(res)
    /\ calls' = Append(calls, "fallback")
    /\ context' = ContextOf("fallback", memory)
    /\ pad_token_id' = PadAfterChat(mode, pad_token_id)
    /\ UNCHANGED <<user_question, memory, mode, strict_ok, execs, df, answer,
                   err, ret, other, conns>>

\* the latest run_sql call was made on the present value of sql: run_sql is
\* called on the local sql, which changes next only when repair_sql returns
HasRun == execs # <<>> /\ pc # "exec_repaired"

\* what run_sql(query) can do: refuse, or open the store and let the
\* engine raise, return rows, or return an empty table
RunSqlOutcomes(query) ==
    IF ~is_safe_sql(query) THEN {Unsafe}
    ELSE {EngineError, "rows", "empty"}

Raised(outcome) == outcome \in {Unsafe, EngineError}

\* sqlite3.connect(DB_PATH): no uri and no mode, a read-write connection;
\* `with ... as conn` commits or rolls back on exit and does not close, and
\* run_sql has no close(): the handle is freed when the interpreter
\* collects the object, which is not a step of run_sql
\* Thus the connections after a run_sql call ended with outcome: the
\* safety check raises before connect, every other call opens one
ConnsAfter(cs, outcome) ==
    IF outcome = Unsafe THEN cs
    ELSE Append(cs, [mode |-> "read-write", closed |-> FALSE])

\* the history entry of a run_sql call made now
Exec(outcome) == [outcome |-> outcome, ncalls |-> Len(calls)]

\* df = run_sql(sql) inside try; an exception leads to repair
RunSql ==
    /\ pc = "exec"
    /\ \E outcome \in RunSqlOutcomes(sql) :
        /\ execs' = Append(execs, Exec(outcome))
        /\ conns' = ConnsAfter(conns, outcome)
        /\ IF Raised(outcome)
            THEN pc' = "repair" /\ df' = df
            ELSE pc' = "answer" /\ df' = outcome
    /\ UNCHANGED <<user_question, memory, mode, sql, calls, strict_ok, answer,
                   err, context, ret, pad_token_id, other>>

\* repair_sql: one generator call, ensure_limit, the substitution guard
RepairSql ==
    /\ pc = "repair"
    /\ \E reply \in GenTexts :
        \E fixed \in {ensure_limit(reply)} : sql' = RepairGuard(fixed)
    /\ calls' = Append(calls, "repair")
    /\ context' = ContextOf("repair", memory)
    /\ pc' = "exec_repaired"
    /\ pad_token_id' = PadAfterChat(mode, pad_token_id)
    /\ UNCHANGED <<user_question, memory, mode, strict_ok, execs, df, answer,
                   err, ret, other, conns>>

\* the except branch as a loop: a second failure leads to repair again
RunSqlRepairedLoop ==
    /\ pc = "exec_repaired"
    /\ \E outcome \in RunSqlOutcomes(sql) :
        /\ execs' = Append(execs, Exec(outcome))
        /\ conns' = ConnsAfter(conns, outcome)
        /\ IF Raised(outcome)
            THEN pc' = "repair" /\ df' = df
            ELSE pc' = "answer" /\ df' = outcome
    /\ UNCHANGED <<user_question, memory, mode, sql, calls, strict_ok, answer,
                   err, context, ret, pad_token_id, other>>

\* the second failure swallowed: an empty table stands in for the result
RunSqlRepairedSwallowed ==
    /\ pc = "exec_repaired"
    /\ \E outcome \in RunSqlOutcomes(sql) :
        /\ execs' = Append(execs, Exec(outcome))
        /\ conns' = ConnsAfter(conns, outcome)
        /\ pc' = "answer"
        /\ df' = IF Raised(outcome) THEN "empty" ELSE outcome
    /\ UNCHANGED <<user_question, memory, mode, sql, calls, strict_ok, answer,
                   err, context, ret, pad_token_id, other>>

\* df = run_sql(sql) in the except branch; an exception leaves ask_hr_bot
RunSqlRepaired ==
    /\ pc = "exec_repaired"
    /\ \E outcome \in RunSqlOutcomes(sql) :
        /\ execs' = Append(execs, Exec(outcome))
        /\ conns' = ConnsAfter(conns, outcome)
        /\ IF Raised(outcome)
            THEN pc' = "raised" /\ err' = outcome /\ df' = df
            ELSE pc' = "answer" /\ err' = err /\ df' = outcome
    /\ UNCHANGED <<user_question, memory, mode, sql, calls, strict_ok, answer,
                   context, ret, pad_token_id, other>>

\* the empty table answered by the generator like any other
AnswerEmptyViaGenerator ==
    /\ pc = "answer"
    /\ df \in {"none", "empty"}
    /\ \E reply \in AnswerTexts : answer' = Strip(reply)
    /\ calls' = Append(calls, "answer")
    /\ pc' = "returned"
    /\ pad_token_id' = PadAfterChat(mode, pad_token_id)
    /\ UNCHANGED <<user_question, memory, mode, sql, strict_ok, execs, df, err,
                   context, ret, other, conns>>

\* answer_with_data on no table (`df is None`) or an empty one: the fixed
\* message, no generator
AnswerEmpty ==
    /\ pc = "answer"
    /\ df \in {"none", "empty"}
    /\ answer' = NoRecordsMessage
    /\ pc' = "returned"
    /\ UNCHANGED <<user_question, memory, mode, sql, calls, strict_ok, execs,
                   df, err, context, ret, pad_token_id, other, conns>>

\* answer_with_data on rows: one generator call, its text stripped
AnswerRows ==
    /\ pc = "answer"
    /\ df = "rows"
    /\ \E reply \in AnswerTexts : answer' = Strip(reply)
    /\ calls' = Append(calls, "answer")
    /\ context' = ContextOf("answer", memory)
    /\ pc' = "returned"
    /\ pad_token_id' = PadAfterChat(mode, pad_token_id)
    /\ UNCHANGED <<user_question, memory, mode, sql, strict_ok, execs, df, err,
                   ret, other, conns>>

\* the generator call the invocation is about to make, "none" when the
\* next step is not a generator call
PendingCall ==
    CASE pc = "start" /\ Shortcut(user_question) = None -> "first"
      [] pc \in {"guard", "strict", "fallback", "repair"} -> pc
      [] pc = "answer" /\ df = "rows" -> "answer"
      [] OTHER -> "none"

\* chat(...) raises and the error is swallowed: the fixed message is
\* returned as the answer
ChatRaisesDefaultAnswer ==
    /\ PendingCall # "none"
    /\ calls' = Append(calls, PendingCall)
    /\ context' = ContextOf(PendingCall, memory)
    /\ pc' = "returned"
    /\ err' = GenerationUnavailable
    /\ answer' = NoRecordsMessage
    /\ pad_token_id' \in {pad_token_id, PadAfterChat(mode, pad_token_id)}
    /\ UNCHANGED <<user_question, memory, mode, sql, strict_ok, execs, df, ret,
                   other, conns>>

\* chat(...) raises: nothing in ask_hr_bot catches it, except that a call
\* made inside the try block does not exist (repair_sql and the generator
\* calls before run_sql are outside of it)
ChatRaises ==
    /\ PendingCall # "none"
    /\ calls' = Append(calls, PendingCall)
    /\ context' = ContextOf(PendingCall, memory)
    /\ pc' = "raised"
    /\ err' = GenerationUnavailable
    /\ pad_token_id' \in {pad_token_id, PadAfterChat(mode, pad_token_id)}
    /\ UNCHANGED <<user_question, memory, mode, sql, strict_ok, execs, df,
                   answer, ret, other, conns>>

Next ==
    \/ TemplateOrCount
    \/ FirstAttempt
    \/ GuardRegenerate
    \/ StrictRetry
    \/ Fallback
    \/ RunSql
    \/ RepairSql
    \/ RunSqlRepaired
    \/ AnswerEmpty
    \/ AnswerRows
    \/ ChatRaises

Spec == Init /\ [][Next]_vars

\* the invocations followed to their end: every question, one memory and
\* one mode (neither decides which step comes next)
InitFair == Init /\ memory = <<>> /\ mode = "groq"

\* ask_hr_bot is sequential code: as long as a step is possible, the
\* invocation takes one (each collaborator call returns or raises)
FairSpec == InitFair /\ [][Next]_vars /\ WF_vars(Next)

(***************************************************************************)
(* Two invocations in one process.  The variables above, other than        *)
(* pad_token_id, are the arguments and locals of one ask_hr_bot call; a    *)
(* second call has its own, of which only the position is kept here: its   *)
(* texts are of no consequence to the first.  chat_engine.py and           *)
(* rag_sql.py have no module-level variable that is assigned after import; *)
(* run_sql opens a connection of its own for every call and executes       *)
(* SELECT statements only; the one object both calls reach is the          *)
(* tokenizer and model that _cached_local_model keeps for the process.     *)
(***************************************************************************)

\* the locals and arguments of the first invocation
own ==
    <<user_question, memory, mode, pc, sql, calls, strict_ok, execs, df,
      answer, err, context, ret, conns>>

\* where the second invocation can be after a generator call made at p has
\* returned; "start" stands for every position before the first run_sql,
\* where one statement request may follow another
OtherAfterChat(p) ==
    CASE p = "start" -> {"start", "exec"}
      [] p = "repair" -> {"exec_repaired"}
      [] p = "answer" -> {"returned"}
      [] OTHER -> {}

\* the statement of ask_hr_bot kept in a module-level variable that the
\* generator calls of every invocation assign
OtherChatSharedSql ==
    /\ \E q \in OtherAfterChat(other) \cup {"raised"} :
        /\ OtherAfterChat(other) # {}
        /\ other' = q
    /\ pad_token_id' \in {pad_token_id, PadAfterChat("local", pad_token_id)}
    /\ sql' = RPlain
    /\ UNCHANGED <<user_question, memory, mode, pc, calls, strict_ok, execs,
                   df, answer, err, context, ret, conns>>

\* the second invocation calls chat(...): the call returns or raises; in
\* local mode it may have set the pad token of the shared tokenizer, in
\* groq mode it leaves it as it was
OtherChat ==
    /\ \E q \in OtherAfterChat(other) \cup {"raised"} :
        /\ OtherAfterChat(other) # {}
        /\ other' = q
    /\ pad_token_id' \in {pad_token_id, PadAfterChat("local", pad_token_id)}
    /\ UNCHANGED own

\* the second invocation goes on without the generator: a template or the
\* count statement, or the fixed message for an empty table
OtherNoChat ==
    /\ \/ other = "start" /\ other' = "exec"
       \/ other = "answer" /\ other' = "returned"
    /\ UNCHANGED <<own, pad_token_id>>

\* the second invocation calls run_sql: a connection of its own, a SELECT
OtherRunSql ==
    /\ \/ other = "exec" /\ other' \in {"repair", "answer"}
       \/ other = "exec_repaired" /\ other' \in {"raised", "answer"}
    /\ UNCHANGED <<own, pad_token_id>>

\* two invocations for different questions start in a fresh process, both
\* with the local model
InitTwo ==
    /\ user_question \in {QList, QHowMany}
    /\ memory = <<>>
    /\ mode = "local"
    /\ pc = "start"
    /\ sql = None
    /\ calls = <<>>
    /\ strict_ok = "none"
    /\ execs = <<>>
    /\ df = "none"
    /\ answer = None
    /\ err = "none"
    /\ context = None
    /\ ret = None
    /\ pad_token_id = "None"
    /\ other = "start"
    /\ conns = <<>>

\* the threads of the process interleave at will
NextTwo ==
    \/ Next
    \/ OtherChat
    \/ OtherNoChat
    \/ OtherRunSql

SpecTwo == InitTwo /\ [][NextTwo]_vars

(***************************************************************************)
(* run_sql called on its own, with any statement                           *)
(***************************************************************************)

\* ';SELECT * FROM employees'
DLeadingSemi ==
    <<";", "SELECT", " ", "*", " ", "FROM", " ", "employees">>

\* '; SELECT * FROM employees'
DLeadingSemiSpace ==
    <<";", " ", "SELECT", " ", "*", " ", "FROM", " ", "employees">>

\* ' SELECT * FROM employees ;'
DPadded ==
    <<" ", "SELECT", " ", "*", " ", "FROM", " ", "employees", " ", ";">>

\* 'SELECTED'
DSelected == <<"SELECT", "ED">>

\* 'DELETE FROM employees'
DDelete == <<"DELETE", " ", "FROM", " ", "employees">>

\* "SELECT * FROM employees WHERE a = 'drop'"
DDropLiteral ==
    <<"SELECT", " ", "*", " ", "FROM", " ", "employees", " ", "WHERE", " ",
      "a", " ", "=", " ", "'", "drop", "'">>

\* 'SELECT created FROM employees'
DCreated == <<"SELECT", " ", "create", "d", " ", "FROM", " ", "employees">>

\* 'SELECT * FROM employees; drop table employees'
DTwoLower ==
    <<"SELECT", " ", "*", " ", "FROM", " ", "employees", ";", " ", "drop",
      " ", "table", " ", "employees">>

\* 'select 1; Pragma x'
DPragma == <<"select", " ", "1", ";", " ", "Pragma", " ", "x">>

DirectStatements ==
    {DLeadingSemi, DLeadingSemiSpace, DPadded, DSelected, DDelete,
     DDropLiteral, DCreated, DTwoLower, DPragma}

\* the statements ask_hr_bot can pass to run_sql
PipelineStatements ==
    {RATE_SQL, AVG_SQL, COUNT_SQL}
    \cup {ensure_limit(t) : t \in GenTexts}
    \cup {RepairGuard(fixed) : fixed \in {ensure_limit(t) : t \in GenTexts}}

\* the statements run_sql is tried on: those of the pipeline, raw generator
\* texts, and statements of other callers
Statements == PipelineStatements \cup GenTexts \cup DirectStatements

InitRunSql ==
    /\ user_question = None
    /\ memory = <<>>
    /\ mode \in Modes
    /\ pc = "run_sql"
    /\ sql \in Statements
    /\ calls = <<>>
    /\ strict_ok = "none"
    /\ execs = <<>>
    /\ df = "none"
    /\ answer = None
    /\ err = "none"
    /\ context = None
    /\ ret = None
    /\ pad_token_id = "None"
    /\ other = "none"
    /\ conns = <<>>

\* run_sql(sql): raises, or returns a table
RunSqlDirect ==
    /\ pc = "run_sql"
    /\ \E outcome \in RunSqlOutcomes(sql) :
        /\ execs' = Append(execs, Exec(outcome))
        /\ conns' = ConnsAfter(conns, outcome)
        /\ IF Raised(outcome)
            THEN pc' = "raised" /\ err' = outcome /\ df' = df
            ELSE pc' = "returned" /\ err' = err /\ df' = outcome
    /\ UNCHANGED <<user_question, memory, mode, sql, calls, strict_ok, answer,
                   context, ret, pad_token_id, other>>

NextRunSql == RunSqlDirect

SpecRunSql == InitRunSql /\ [][NextRunSql]_vars

(***************************************************************************)
(* Both callers of run_sql: an invocation of ask_hr_bot, or a direct call  *)
(***************************************************************************)

InitAll == Init \/ InitRunSql

NextAll == Next \/ NextRunSql

SpecAll == InitAll /\ [][NextAll]_vars

(***************************************************************************)
(* The helpers called on their own: answer_with_data on any table,         *)
(* the statement helpers on any text, summarize_memory on any memory       *)
(***************************************************************************)

\* answer_with_data(user_question, sql, df, memory, mode) called directly:
\* no table, an empty one, or rows
InitAnswer ==
    /\ user_question \in {QList, QHowMany}
    /\ memory \in Memories
    /\ mode \in Modes
    /\ pc = "answer"
    /\ sql = COUNT_SQL
    /\ calls = <<>>
    /\ strict_ok = "none"
    /\ execs = <<>>
    /\ df \in {"none", "empty", "rows"}
    /\ answer = None
    /\ err = "none"
    /\ context = None
    /\ ret = None
    /\ pad_token_id = "None"
    /\ other = "none"
    /\ conns = <<>>

\* 'SELECTED FROM employees'
HSelectedFrom ==
    <<"SELECT", "ED", " ", "FROM", " ", "employees">>

\* 'SELECT Age FROM employees LIMIT 5 ;'
HLimitSpaced ==
    <<"SELECT", " ", "Age", " ", "FROM", " ", "employees", " ", "LIMIT",
      " ", "5", " ", ";">>

\* 'SELECT * FROM employees WHERE Attrition\t=\t1'
HBadTab ==
    <<"SELECT", " ", "*", " ", "FROM", " ", "employees", " ", "WHERE",
      " ", "Attrition", "\t", "=", "\t", "1">>

\* "SELECT ' from employees'"
HQuoted ==
    <<"SELECT", " ", "'", " ", "from", " ", "employees", "'">>

\* the texts the statement helpers are tried on: generator replies, what
\* the pipeline makes of them, statements of other callers, and texts
\* about the row limit, the leading keyword and the table name
HelperTexts ==
    Statements
    \cup {HSelectedFrom, HLimitSpaced, HBadTab, HQuoted}
    \cup {
     \* "SELECT Age FROM employees WHERE JobRole = 'Only' LIMIT 5;"
     <<"SELECT", " ", "Age", " ", "FROM", " ", "employees", " ", "WHERE",
      " ", "JobRole", " ", "=", " ", "'", "Only", "'", " ", "LIMIT", " ",
      "5", ";">>,
     \* 'Here it is: SELECT Age FROM employees; DROP TABLE employees;'
     <<"Here", " ", "it", " ", "is", ":", " ", "SELECT", " ", "Age", " ",
      "FROM", " ", "employees", ";", " ", "DROP", " ", "TABLE", " ",
      "employees", ";">>,
     \* 'SELECT COUNT(*) FROM employees'
     <<"SELECT", " ", "COUNT", "(", "*", ")", " ", "FROM", " ", "employees">>,
     \* "SELECT COUNT(*) FROM employees WHERE JobRole = 'Only';"
     <<"SELECT", " ", "COUNT", "(", "*", ")", " ", "FROM", " ", "employees",
      " ", "WHERE", " ", "JobRole", " ", "=", " ", "'", "Only", "'", ";">>,
     \* 'SELECT COUNT(*) FROM employees LIMIT 5;'
     <<"SELECT", " ", "COUNT", "(", "*", ")", " ", "FROM", " ", "employees",
      " ", "LIMIT", " ", "5", ";">>
    }

\* conversations of every length up to MaxMem
AllMemories == {[i \in 1..n |-> Turn(i)] : n \in 0..MaxMem}

\* is_valid_sql_for_hr(sql), ensure_limit(sql), _extract_first_select(sql)
\* or summarize_memory(memory) is about to be called
InitHelpers ==
    /\ user_question = None
    /\ mode \in {"groq"}
    /\ \/ /\ pc \in {"is_valid_sql_for_hr", "ensure_limit",
                     "_extract_first_select"}
          /\ sql \in HelperTexts
          /\ memory = <<>>
       \/ /\ pc = "summarize_memory"
          /\ sql = None
          /\ memory \in AllMemories
    /\ calls = <<>>
    /\ strict_ok = "none"
    /\ execs = <<>>
    /\ df = "none"
    /\ answer = None
    /\ err = "none"
    /\ context = None
    /\ ret = None
    /\ pad_token_id = "None"
    /\ other = "none"
    /\ conns = <<>>

\* is_valid_sql_for_hr(sql) returns its verdict
CallIsValid ==
    /\ pc = "is_valid_sql_for_hr"
    /\ ret' = is_valid_sql_for_hr(sql)
    /\ pc' = "is_valid_sql_for_hr.1"
    /\ UNCHANGED <<user_question, memory, mode, sql, calls, strict_ok, execs,
                   df, answer, err, context, pad_token_id, other, conns>>

\* ensure_limit(sql) returns the statement
CallEnsureLimit ==
    /\ pc = "ensure_limit"
    /\ ret' = ensure_limit(sql)
    /\ pc' = "ensure_limit.1"
    /\ UNCHANGED <<user_question, memory, mode, sql, calls, strict_ok, execs,
                   df, answer, err, context, pad_token_id, other, conns>>

\* ensure_limit called again, on what it returned
CallEnsureLimitAgain ==
    /\ pc = "ensure_limit.1"
    /\ sql' = ret
    /\ ret' = ensure_limit(ret)
    /\ pc' = "ensure_limit.2"
    /\ UNCHANGED <<user_question, memory, mode, calls, strict_ok, execs, df,
                   answer, err, context, pad_token_id, other, conns>>

\* _extract_first_select(sql) returns the statement
CallExtractFirstSelect ==
    /\ pc = "_extract_first_select"
    /\ ret' = _extract_first_select(sql)
    /\ pc' = "_extract_first_select.1"
    /\ UNCHANGED <<user_question, memory, mode, sql, calls, strict_ok, execs,
                   df, answer, err, context, pad_token_id, other, conns>>

\* summarize_memory(memory) returns the context text
CallSummarize ==
    /\ pc = "summarize_memory"
    /\ ret' = summarize_memory(memory)
    /\ pc' = "summarize_memory.1"
    /\ UNCHANGED <<user_question, memory, mode, sql, calls, strict_ok, execs,
                   df, answer, err, context, pad_token_id, other, conns>>

NextHelpers ==
    \/ CallIsValid
    \/ CallEnsureLimit
    \/ CallEnsureLimitAgain
    \/ CallExtractFirstSelect
    \/ CallSummarize

SpecHelpers == InitHelpers /\ [][NextHelpers]_vars

(***************************************************************************)
(* Every entry point: ask_hr_bot, answer_with_data and the helpers         *)
(***************************************************************************)

InitCalls == Init \/ InitAnswer \/ InitHelpers

NextCalls == Next \/ NextHelpers

SpecCalls == InitCalls /\ [][NextCalls]_vars

(***************************************************************************)
(* Properties                                                              *)
(***************************************************************************)

\* the generator calls that produce a statement before the first execution
StatementCalls == {"first", "guard", "strict", "fallback"}

\* how many times the call kind k was made
Times(k) == Cardinality({i \in 1..Len(calls) : calls[i] = k})

C2_LastCall == IF calls = <<>> THEN "none" ELSE calls[Len(calls)]

C2_Step ==
    /\ pc = "strict" /\ pc' # "raised" =>
        /\ calls' = Append(calls, "strict")
        /\ strict_ok' # "none"
        /\ strict_ok' = "valid" <=> is_valid_sql_for_hr(sql')
        /\ pc' = IF strict_ok' = "valid" THEN "exec" ELSE "fallback"
    /\ pc = "fallback" /\ pc' # "raised" =>
        /\ strict_ok = "invalid" /\ C2_LastCall = "strict"
        /\ calls' = Append(calls, "fallback")
        /\ pc' = "exec"
    /\ pc = "exec" /\ strict_ok # "none" =>
        /\ C2_LastCall = IF strict_ok = "valid" THEN "strict" ELSE "fallback"
        /\ execs = <<>> /\ Len(execs') = 1
        /\ HasRun' /\ sql' = sql /\ calls' = calls

C3_NumeralComparison(s) ==
    \E i \in 1..Len(s) :
        LET j == i + 1 + WsRun(s, i + 1)
            k == j + 1 + WsRun(s, j + 1)
        IN  /\ WholeWordAt(s, i, "attrition")
            /\ j <= Len(s) /\ s[j] = "="
            /\ k <= Len(s) /\ s[k] \in {"0", "1"}
            /\ Boundary(s, k + 1)

\* C3 (as claimed): no statement passed to run_sql, first or post-repair,
\* compares the column Attrition with the numeral 0 or 1
C3_NoNumeralComparisonExecuted ==
    HasRun => ~C3_NumeralComparison(sql)

\* the statement s, trimmed as run_sql trims it (white space, then
\* semicolons, from both ends), does not start with SELECT, or holds a
\* forbidden word as a whole word, in any letter case
C4_MustBeRefused(s) ==
    \/ ~StartsWith(Lower(StripSemi(Strip(s))), <<"select">>)
    \/ \E i \in 1..Len(s) :
        /\ LowerTok(s[i]) \in {"insert", "update", "delete", "drop", "alter",
                               "pragma", "attach", "detach", "create"}
        /\ Boundary(s, i)
        /\ Boundary(s, i + 1)

C5_ReferencesEmployees(s) ==
    \E i \in 1..Len(s) : WholeWordAt(s, i, "employees")

\* C5 (as claimed): every statement that reaches the engine references the
\* table employees
C5_EngineSeesOnlyEmployees ==
    HasRun /\ execs[Len(execs)].outcome # Unsafe =>
        C5_ReferencesEmployees(sql)

\* C6: repair is attempted at most once and only after the first run_sql
\* call raised; it makes exactly one generator call; the repaired statement
\* is executed once; if that execution raises too, ask_hr_bot raises that
\* error with no further generator call or execution
C6_AtMostOneRepair ==
    /\ Len(execs) <= 2
    /\ Times("repair") <= 1
    /\ pc \in {"repair", "exec_repaired"} =>
        Len(execs) = 1 /\ Raised(execs[1].outcome)
    /\ Times("repair") = 1 =>
        /\ execs # <<>> /\ Raised(execs[1].outcome)
        /\ calls[execs[1].ncalls + 1] = "repair"
    /\ Len(execs) = 2 =>
        /\ Raised(execs[1].outcome)
        /\ execs[2].ncalls = execs[1].ncalls + 1
        /\ calls[execs[2].ncalls] = "repair"
    /\ Len(execs) = 2 /\ Raised(execs[2].outcome) =>
        /\ pc = "raised"
        /\ err = execs[2].outcome
        /\ Len(calls) = execs[2].ncalls

\* C6 witness: the first execution raised, one repair call was made, the
\* repaired statement raised too and ask_hr_bot raised that error
C6_Witness ==
    /\ Len(execs) = 2
    /\ Raised(execs[2].outcome)
    /\ Times("repair") = 1
    /\ pc = "raised"
    /\ err = execs[2].outcome

\* C7 (as claimed): _contains_bad_attrition is false on what repair_sql
\* returns
C7_RepairedHasNoBadAttrition ==
    pc = "exec_repaired" => ~_contains_bad_attrition(sql)

\* the question matches the attrition-rate template / the average-income
\* template
C8_IsRateQuestion ==
    \E q \in {Lower(user_question)} :
        /\ Contains(q, <<"attrition", " ", "rate">>)
        /\ Contains(q, <<"department">>)

C8_IsAvgQuestion ==
    \E q \in {Lower(user_question)} :
        /\ Contains(q, <<"average">>) \/ Contains(q, <<"avg">>)
        /\ Contains(q, <<"monthlyincome">>)
        /\ Contains(q, <<"department">>)

\* generate_sql has returned and run_sql was not called yet
C8_Generated == pc \notin {"start", "guard", "strict"} /\ execs = <<>>

\* C8: for a question matching a template, generate_sql returns the
\* pre-authored statement of that template (the attrition-rate one when the
\* question matches both), character for character, whatever the memory
\* and the mode, and makes no generator call
C8_TemplateReturnedVerbatim ==
    /\ C8_IsRateQuestion \/ C8_IsAvgQuestion =>
        /\ pc \notin {"guard", "strict", "fallback"}
        /\ execs = <<>> => calls = <<>>
        /\ execs # <<>> => execs[1].ncalls = 0
    /\ C8_IsRateQuestion /\ C8_Generated => sql = RATE_SQL
    /\ C8_IsAvgQuestion /\ ~C8_IsRateQuestion /\ C8_Generated => sql = AVG_SQL

\* C8 witness: an upper-case, padded rate question asked with a non-empty
\* memory in local mode got the rate statement without a generator call
C8_Witness ==
    /\ user_question = QRateUpper
    /\ memory # <<>>
    /\ mode = "local"
    /\ pc = "exec"
    /\ sql = RATE_SQL
    /\ calls = <<>>

\* the question holds a count-intent keyword and no comparison qualifier
C9_IsPlainCountQuestion ==
    \E q \in {Lower(user_question)} :
        /\ \/ Contains(q, <<"how", " ", "many">>)
           \/ Contains(q, <<"count">>)
           \/ Contains(q, <<"number", " ", "of">>)
           \/ Contains(q, <<"total">>)
        /\ \A w \in {"where", "above", "below", "greater", "less", "older",
                     "younger", ">", "<", "="} : ~Contains(q, <<w>>)

\* C9 (as claimed): for a question with a count-intent keyword and no
\* comparison qualifier, generate_sql returns the fixed row-count statement
\* and makes no generator call
C9_CountQuestionGetsCount ==
    C9_IsPlainCountQuestion /\ C8_Generated =>
        sql = COUNT_SQL /\ calls = <<>>

\* C9 (amended): for a question with a count-intent keyword and no
\* comparison qualifier that matches no deterministic template,
\* generate_sql returns the fixed row-count statement and makes no
\* generator call
C9_CountQuestionWithoutTemplateGetsCount ==
    C9_IsPlainCountQuestion /\ ~C8_IsRateQuestion /\ ~C8_IsAvgQuestion =>
        /\ pc \notin {"guard", "strict", "fallback"}
        /\ C8_Generated => sql = COUNT_SQL /\ calls = <<>>
        /\ execs # <<>> => execs[1].ncalls = 0

\* C9 witness: 'Which country has most employees' (count inside country)
\* got the row-count statement without a generator call
C9_Witness ==
    /\ user_question = QCountry
    /\ pc = "exec"
    /\ sql = COUNT_SQL
    /\ calls = <<>>

\* C10: when generate_sql takes a template or count short-circuit,
\* ask_hr_bot makes no generator call before the first execution: the fixed
\* statement passes the is_valid_sql_for_hr re-check of ask_hr_bot and the
\* safety check of run_sql, and it is the statement executed ('How many
\* employees are there?' executes the fixed count statement)
C10_ShortcutRunsFixedStatement ==
    C8_IsRateQuestion \/ C8_IsAvgQuestion \/ C9_IsPlainCountQuestion =>
        /\ pc \notin {"guard", "strict", "fallback"}
        /\ execs = <<>> => calls = <<>>
        /\ execs # <<>> =>
            /\ execs[1].ncalls = 0
            /\ execs[1].outcome # Unsafe
        /\ Len(execs) = 1 /\ HasRun =>
            /\ sql \in {RATE_SQL, AVG_SQL, COUNT_SQL}
            /\ user_question = QHowMany => sql = COUNT_SQL

\* C10 witness: 'How many employees are there?' executed the fixed count
\* statement, which reached the engine, before any generator call
C10_Witness ==
    /\ user_question = QHowMany
    /\ Len(execs) = 1
    /\ execs[1].ncalls = 0
    /\ execs[1].outcome \in {"rows", "empty"}
    /\ HasRun
    /\ sql = COUNT_SQL
    /\ calls = <<>>

\* the run_sql calls that returned an empty table
C11_EmptyRuns == {i \in 1..Len(execs) : execs[i].outcome = "empty"}

\* C11: on an empty or absent table answer_with_data returns the fixed
\* no-records message and makes no generator call; once a run_sql call of
\* ask_hr_bot has returned an empty table there is no repair, no further
\* run_sql call and no generator call, nothing is raised, and the answer
\* returned is that message.
C11_EmptyTableGetsFixedMessage ==
    /\ pc = "returned" /\ df \in {"none", "empty"} =>
        /\ answer = NoRecordsMessage
        /\ Times("answer") = 0
    /\ \A i \in C11_EmptyRuns :
        /\ i = Len(execs)
        /\ Len(calls) = execs[i].ncalls
        /\ Times("repair") = i - 1
        /\ df = "empty"
        /\ err = "none"
        /\ pc \in {"answer", "returned"}

\* C11 witness: the second run_sql call of an invocation, made on the
\* repaired statement, returned an empty table and ask_hr_bot has returned
C11_Witness ==
    /\ pc = "returned"
    /\ df = "empty"
    /\ Len(execs) = 2
    /\ answer = NoRecordsMessage

\* C11 witness of the direct call: answer_with_data was given no table
C11_WitnessAbsent ==
    /\ pc = "returned"
    /\ df = "none"
    /\ execs = <<>>
    /\ answer = NoRecordsMessage

\* the text s compares the column Attrition (any letter case) with the
\* numeral 0 or 1 by '=', with left spaces before the operator and right
\* spaces after it
C12_ComparesAt(s, left, right) ==
    \E i \in 1..Len(s) :
        /\ WholeWordAt(s, i, "attrition")
        /\ i + left + right + 2 <= Len(s)
        /\ SubSeq(s, i + 1, i + left) = Sp(left)
        /\ s[i + left + 1] = "="
        /\ SubSeq(s, i + left + 2, i + left + right + 1) = Sp(right)
        /\ s[i + left + right + 2] \in {"0", "1"}
        /\ Boundary(s, i + left + right + 3)

\* spaces on both sides of the operator, on neither side, or on one side
C12_Compares(s) ==
    \E left \in {0, 1} : \E right \in {0, 1} : C12_ComparesAt(s, left, right)

\* C12 (as claimed): is_valid_sql_for_hr returns false for every text whose
\* extracted first statement compares Attrition with the numeral 0 or 1 by
\* '=', whatever the spacing around the operator and the letter case
C12_NumeralComparisonIsInvalid ==
    pc = "is_valid_sql_for_hr.1" /\ C12_Compares(_extract_first_select(sql))
        => ret = FALSE

\* the text s holds a row-limit clause: the word LIMIT (any letter case)
\* followed by white space and a digit
C13_HasLimitClause(s) ==
    \E i \in 1..Len(s) :
        LET j == i + 1 + WsRun(s, i + 1)
        IN  /\ WholeWordAt(s, i, "limit")
            /\ j > i + 1
            /\ j <= Len(s)
            /\ s[j] \in {"0", "1", "2", "3", "4", "5", "6", "7", "8", "9"}

\* how many times the word LIMIT (any letter case) stands in s
C13_LimitWords(s) ==
    Cardinality({i \in 1..Len(s) : WholeWordAt(s, i, "limit")})

\* the first statement of text, as ensure_limit extracts it, has no
\* row-limit clause and is not of count form; what ensure_limit returned is
\* that statement, its terminators dropped, then ' LIMIT 50;'
C13_DefaultAppended(text, returned) ==
    \E s \in {_extract_first_select(text)} :
        ~C13_HasLimitClause(s) /\ ~SelectCount(s) =>
            /\ returned = RStripSemi(s) \o <<" ", "LIMIT", " ", "5", "0", ";">>
            /\ C13_LimitWords(returned) = 1

\* C13 (as claimed): ensure_limit appends exactly one LIMIT 50 clause before
\* the terminator to every statement with no row-limit clause that is not of
\* count form, and ensure_limit applied to its own result returns that
\* result, with a single LIMIT clause
C13_LimitAppendedOnceAndIdempotent ==
    /\ pc = "ensure_limit.1" => C13_DefaultAppended(sql, ret)
    /\ pc = "ensure_limit.2" => ret = sql /\ C13_LimitWords(ret) <= 1

\* the text s is normalized: no code fence, no white space other than
\* single spaces between lexemes, none at either end
C14_Normalized(s) ==
    /\ \A i \in 1..Len(s) :
        /\ s[i] # "~~~"
        /\ s[i] \in Whitespace =>
            /\ s[i] = " "
            /\ i > 1 /\ s[i - 1] \notin Whitespace
            /\ i < Len(s) /\ s[i + 1] \notin Whitespace

\* the text s is bounded: it holds a row-limit clause, or it is a count
\* statement that ends with the terminator
C14_Bounded(s) ==
    \/ C13_HasLimitClause(s)
    \/ SelectCount(s) /\ s # <<>> /\ s[Len(s)] = ";"

\* C14 (as claimed): a text that is already normalized, already bounded and
\* valid under is_valid_sql_for_hr comes back from normalize, extract and
\* ensure_limit unchanged, lexeme for lexeme
C14_CleanStatementUnchanged ==
    /\ pc = "ensure_limit.1"
    /\ C14_Normalized(sql)
    /\ C14_Bounded(sql)
    /\ is_valid_sql_for_hr(sql)
    => ret = sql

\* one step of ask_hr_bot, seen from a failed generator call: the step in
\* which the call raises makes that call and nothing else, leaves ask_hr_bot
\* with the error and without an answer; after it there is no step at all
C15_Step ==
    /\ err # GenerationUnavailable
    /\ err' = GenerationUnavailable =>
        /\ PendingCall # "none"
        /\ calls' = Append(calls, PendingCall)
        /\ execs' = execs
        /\ sql' = sql
        /\ df' = df
        /\ pc' = "raised"
        /\ answer' = None

\* C15: a generator call that raises, at any stage of ask_hr_bot, ends the
\* invocation with that error: it is not caught and not retried, no
\* generator call or run_sql call follows, and no answer is returned.
C15_GeneratorErrorPropagates == [][C15_Step]_vars

\* C15 witness: the generator raised inside repair_sql, after the first
\* run_sql call had failed, and ask_hr_bot ended with the generator's error
C15_Witness ==
    /\ pc = "raised"
    /\ err = GenerationUnavailable
    /\ C2_LastCall = "repair"
    /\ Len(execs) = 1
    /\ answer = None

\* ask_hr_bot has returned its tuple or raised
C16_Ended == pc \in {"returned", "raised"}

\* the collaborator calls of one invocation so far are within their bounds:
\* each kind of generator call at most once, two run_sql calls at most
C16_Bounded ==
    /\ \A k \in {"first", "guard", "strict", "fallback", "repair", "answer"} :
        Times(k) <= 1
    /\ Len(calls) <= 6
    /\ Len(execs) <= 2

\* C16: every invocation of ask_hr_bot ends, returning or raising, when each
\* collaborator call returns or raises; guard regeneration, strict retry and
\* repair are each taken at most once, run_sql is called at most twice and
\* the answer generator at most once.
C16_TerminatesWithinBounds == [](C16_Bounded) /\ <>C16_Ended

\* C16 witness: an invocation that took the guard regeneration, the strict
\* retry, the repair, two run_sql calls and the answer call, and returned
C16_Witness ==
    /\ pc = "returned"
    /\ Times("guard") = 1
    /\ Times("strict") = 1
    /\ Times("repair") = 1
    /\ Times("answer") = 1
    /\ Len(execs) = 2

\* how many turns the context text holds: a turn is a line of four lexemes
\* (role, colon, space, content), lines are joined by a line break
C17_TurnsIn(text) == IF text = <<>> THEN 0 ELSE (Len(text) + 1) \div 5

\* the context text holds the last n turns of mem for some n of at most 6,
\* in the order of mem, the newest last
C17_LastTurnsInOrder(text, mem) ==
    \E n \in {C17_TurnsIn(text)} :
        /\ n <= 6
        /\ n <= Len(mem)
        /\ Len(text) = IF n = 0 THEN 0 ELSE 5 * n - 1
        /\ \A j \in 1..n :
            /\ text[5 * (j - 1) + 4] = mem[Len(mem) - n + j].content
            /\ text[5 * (j - 1) + 1] = UpperTok(mem[Len(mem) - n + j].role)

\* one step of any entry point, seen from the caller's memory: the memory
\* is the same after it, and the context of a generator request built in it
\* (or the text summarize_memory returns) holds the last turns only
C17_Step ==
    /\ memory' = memory
    /\ calls' # calls => C17_LastTurnsInOrder(context', memory)
    /\ pc = "summarize_memory" /\ pc' # pc =>
        C17_LastTurnsInOrder(ret', memory)

\* C17: every generator request built by generate_sql and answer_with_data
\* carries at most the last 6 turns of the conversation memory, in their
\* order with the newest last, and no step of ask_hr_bot changes the
\* caller's memory, whether it returns or raises.
C17_ReadsBoundedSuffixOnly == [][C17_Step]_vars

\* C17 witness: an invocation with a memory of more than 6 turns has
\* returned, and its answer request carried exactly 6 turns
C17_Witness ==
    /\ pc = "returned"
    /\ Len(memory) > 6
    /\ C2_LastCall = "answer"
    /\ C17_TurnsIn(context) = 6
    /\ context[4] = memory[Len(memory) - 5].content

\* the generator calls of generate_sql so far, in order
C19_GenerateCalls(history) ==
    SelectSeq(history, LAMBDA k : k \in {"first", "guard", "strict"})

\* the orders generate_sql can make its generator calls in
C19_Orders ==
    {<<>>, <<"first">>, <<"first", "guard">>, <<"first", "strict">>,
     <<"first", "guard", "strict">>}

\* the text s went through normalize, extract and bound: it is what
\* ensure_limit returns for some generator text
C19_Sanitized(s) == \E reply \in GenTexts : s = ensure_limit(reply)

\* one step of generate_sql in which the generator returned a text: the
\* candidate is sanitized; after the first attempt the guard regeneration
\* comes next exactly when the candidate holds the banned pattern; a
\* candidate that is not regenerated, or the regenerated one, is validated,
\* and the strict retry comes next exactly when it is invalid; after the
\* strict retry generate_sql has returned
C19_Step ==
    /\ C19_GenerateCalls(calls') \in C19_Orders
    /\ pc' = "guard" => pc = "start"
    /\ pc' = "strict" => pc \in {"start", "guard"}
    /\ pc \in {"start", "guard", "strict"} /\ calls' # calls /\ pc' # "raised" =>
        \E res \in {sql'} : \E valid \in {is_valid_sql_for_hr(res)} :
            /\ C19_Sanitized(res)
            /\ pc = "start" =>
                /\ calls' = Append(calls, "first")
                /\ pc' = "guard" <=> _contains_bad_attrition(res)
                /\ pc' # "guard" => (pc' = "strict" <=> ~valid)
                /\ pc' \in {"guard", "strict", "exec"}
            /\ pc = "guard" =>
                /\ calls' = Append(calls, "guard")
                /\ pc' = "strict" <=> ~valid
                /\ pc' \in {"strict", "exec"}
            /\ pc = "strict" =>
                /\ calls' = Append(calls, "strict")
                /\ pc' \in {"exec", "fallback"}

\* C19: on the generator path generate_sql makes its calls in the order
\* first attempt, guard regeneration, strict retry; the guard regeneration
\* is made at most once, exactly when the first candidate holds the banned
\* Attrition pattern; the candidate left by the guard step is validated and
\* the strict retry is made once, exactly when that candidate is invalid;
\* every generator text goes through normalize, extract and bound first.
C19_GenerateSqlOrder == [][C19_Step]_vars

\* C19 witness: generate_sql made all three calls: the first candidate held
\* the banned pattern, the regenerated one was invalid, and the strict
\* retry's statement is about to be executed
C19_Witness ==
    /\ calls = <<"first", "guard", "strict">>
    /\ pc = "exec"
    /\ is_valid_sql_for_hr(sql)

\* the lower-case statement s names the table after FROM: ' from ' and
\* then the word employees, not a longer identifier that starts with it
C20_ReferencesTable(s) ==
    \E i \in 2..Len(s) :
        /\ i + 2 <= Len(s)
        /\ s[i - 1] = " "
        /\ s[i] = "from"
        /\ s[i + 1] = " "
        /\ WholeWordAt(s, i + 2, "employees")

\* what the claim requires of the lower-case first statement s
C20_Required(s) ==
    /\ s # <<>>
    /\ WholeWordAt(s, 1, "select")
    /\ C20_ReferencesTable(s)
    /\ ~C12_Compares(s)
    /\ ~SelectWord(s, "query")
    /\ ~SelectWord(s, "sql")
    /\ ~SelectWord(s, "data")
    /\ ~SelectStarLimit(s)

\* C20 (as claimed): is_valid_sql_for_hr returns a truth value for every
\* text, and true exactly when the extracted first statement begins with
\* the SELECT keyword, names the table employees (not a longer identifier),
\* holds no banned Attrition comparison and has none of the deny-list shapes
C20_ValidExactlyWhenRequired ==
    pc = "is_valid_sql_for_hr.1" =>
        /\ ret \in BOOLEAN
        /\ ret = C20_Required(Lower(_extract_first_select(sql)))

\* C18: under every interleaving of two invocations, a step that changes
\* the arguments, the locals, the executed statements or the result of the
\* first invocation is a step ask_hr_bot takes when it runs alone with the
\* same collaborator responses, and a step of the second invocation leaves
\* all of them as they were.
C18_Step ==
    /\ own' # own => Next
    /\ other' # other => own' = own

C21_SelectAfterPreamble(text) == Find(Lower(text), <<"select">>) > 1

\* C21 (as claimed): for every text in which the keyword SELECT stands after
\* some preamble, _extract_first_select returns a text that begins with
\* SELECT, also when the preamble holds a statement terminator or the text
\* holds several statements
C21_SlicedFromFirstSelect ==
    pc = "_extract_first_select.1" /\ C21_SelectAfterPreamble(sql) =>
        StartsWith(Lower(ret), <<"select">>)

\* the text s holds at most one terminator, and only as its last character
C22_SingleStatement(s) == \A i \in 1..Len(s) : s[i] = ";" => i = Len(s)

\* C22: every statement ask_hr_bot passes to run_sql, at the first execution
\* and at the execution after repair, holds at most one ';', and only as its
\* last character, whatever the generator returned
C22_ExecutedIsSingleStatement ==
    pc \in {"exec", "exec_repaired"} \/ HasRun => C22_SingleStatement(sql)

\* the generator returned two statements, and run_sql was called on what
\* the pipeline made of them: at the first execution, and again after repair
C22_Witness ==
    /\ Len(execs) = 2
    /\ calls = <<"first", "repair">>
    /\ sql = RepairGuard(ensure_limit(RTwo))
    /\ Contains(sql, <<";">>)

\* the statement s is row-bounded: it holds a LIMIT clause or is of count
\* form
C23_RowBounded(s) == C13_HasLimitClause(s) \/ SelectCount(s)

\* C23 (as claimed): every statement made of a generator text that
\* ask_hr_bot passes to run_sql, at the first execution or after repair,
\* holds a LIMIT clause or is of count form
C23_GeneratedIsRowBounded ==
    (pc \in {"exec", "exec_repaired"} \/ HasRun) /\ calls # <<>> =>
        C23_RowBounded(sql)

\* the text s is a normalized single statement of count form
C24_CountStatement(s) ==
    /\ C14_Normalized(s)
    /\ C22_SingleStatement(s)
    /\ StartsWith(Lower(s), <<"select">>)
    /\ SelectCount(s)

\* C24 (as claimed): ensure_limit returns every normalized single statement
\* of count form as it was given, lexeme for lexeme, with no LIMIT clause
\* added
C24_CountStatementUntouched ==
    pc = "ensure_limit.1" /\ C24_CountStatement(sql) => ret = sql

\* the latest run_sql call returned a table, and df is that table
C25_TableReturned ==
    /\ execs # <<>>
    /\ ~Raised(execs[Len(execs)].outcome)
    /\ df = execs[Len(execs)].outcome

\* one step of ask_hr_bot, as C25 has it
C25_Step ==
    \* a run_sql call is made on the local sql and leaves it as it is; the
    \* table it returns becomes df
    /\ Len(execs') = Len(execs) + 1 =>
        /\ sql' = sql
        /\ execs'[Len(execs')].outcome \in RunSqlOutcomes(sql)
        /\ ~Raised(execs'[Len(execs')].outcome) =>
            pc' = "answer" /\ df' = execs'[Len(execs')].outcome
    \* once run_sql has been called, only repair_sql changes the statement,
    \* and the table changes only when run_sql returns one
    /\ execs # <<>> /\ sql' # sql => pc = "repair"
    /\ df' # df => Len(execs') = Len(execs) + 1
    \* answer_with_data is entered only on a table run_sql returned, and the
    \* tuple returned holds that table and the statement as it was executed
    /\ answer' # answer =>
        /\ pc = "answer" /\ pc' = "returned"
        /\ C25_TableReturned
        /\ sql' = sql /\ df' = df /\ err' = "none"
    \* the second failure is what the caller receives, and no answer
    /\ Len(execs') = 2 /\ Len(execs) = 1 /\ Raised(execs'[2].outcome) =>
        pc' = "raised" /\ err' = execs'[2].outcome /\ answer' = None

\* C25: answer_with_data is invoked only after a run_sql call has returned a
\* table; the tuple ask_hr_bot returns holds the statement whose run_sql
\* call produced the table (the repaired one after a repair); when both
\* executions fail no answer is composed and the caller receives the error
\* of the second execution.
C25_ReturnsWhatWasExecuted == [][C25_Step]_vars

\* a repair occurred and ask_hr_bot returned: the answer, the repaired
\* statement and the table of the second run_sql call
C25_Witness ==
    /\ pc = "returned"
    /\ calls = <<"first", "repair", "answer">>
    /\ Len(execs) = 2
    /\ df = "rows"
    /\ sql = RepairGuard(ensure_limit(RBadTen))

\* the run_sql calls made so far that passed the safety check
C26_SafeRuns == {i \in 1..Len(execs) : execs[i].outcome # Unsafe}

\* C26 (as claimed): each run_sql call that passes the safety check opens a
\* connection of its own, in read-only mode, and once run_sql has returned
\* or raised that connection is closed: none stays open between the
\* executions of a question or after it
C26_OwnReadOnlyConnectionClosed ==
    /\ Len(conns) = Cardinality(C26_SafeRuns)
    /\ \A i \in 1..Len(conns) :
        /\ conns[i].mode = "read-only"
        /\ conns[i].closed

====
